---- MODULE Spec2Model ----
(***************************************************************************)
(* Model of src/server.js: the trust-layer oracle.                         *)
(*   - inMemoryDB: a bounded, insertion-ordered store of scan records;     *)
(*   - scanWithGoPlus: the scorer over the risk-analysis report;           *)
(*   - the AuditRequested handler (on-demand fulfillment);                 *)
(*   - scanNewBlocks / scanBlock (the periodic block sweep);               *)
(*   - the read endpoints /api/recent-scans and /api/contract-status.      *)
(* Every await of the code is a suspension point: an action runs a handler *)
(* from one await's return to the next await (or to its end).              *)
(***************************************************************************)
EXTENDS Integers, Sequences, FiniteSets, TLC

VARIABLES
    scans,              \* inMemoryDB.scans
    appended,           \* history: every record ever passed to addScan, in order
    req,                \* per requestId: the AuditRequested handler's invocation
    fulfillCalls,       \* history: per requestId, the contract.fulfillAudit calls made
    lastProcessedBlock, \* the sweep's watermark
    isScanning,         \* the sweep's single-flight flag
    tick,               \* per timer firing: the scanNewBlocks invocation
    scanLog,            \* history: the block numbers passed to scanBlock, in order
    resp                \* the last response sent by a read endpoint

vars == <<scans, appended, req, fulfillCalls, lastProcessedBlock, isScanning,
          tick, scanLog, resp>>

----------------------------------------------------------------------------
(* Bounds of the model. *)

\* inMemoryDB keeps the last 1000 records (server.js:24); the model keeps the
\* last Capacity, so that eviction happens within a few appends.
Capacity == 2

\* Spec, both flows interleaved:
MaxRequests == 2    \* AuditRequested notifications delivered
MaxTicks == 1       \* firings of the 12 s timer
MaxHead == 1        \* chain head heights are 0..MaxHead
MaxTxs == 1         \* transactions per block

\* SpecSweep, the sweep alone:
SweepTicks == 3     \* firings of the 12 s timer
SweepHead == 2      \* chain head heights are 0..SweepHead
SweepTxs == 1       \* transactions per block

\* SpecDemand, concurrent notifications for different targets:
DemandRequests == 2 \* AuditRequested notifications delivered

\* SpecSweepFair, the sweep whose calls all return:
FairTicks == 2      \* firings of the 12 s timer
FairHead == 1       \* chain head heights are 0..FairHead
FairTxs == 1        \* transactions per block

DefaultLimit == 50  \* getRecent's default limit, and the endpoint's

\* null / undefined, and a present value
Null == <<>>
Some(x) == <<x>>

Max(a, b) == IF a >= b THEN a ELSE b
Min(a, b) == IF a <= b THEN a ELSE b

----------------------------------------------------------------------------
(* Strings are sequences of characters. *)

LowerChar(c) ==
    CASE c = "A" -> "a" [] c = "B" -> "b" [] c = "C" -> "c"
      [] c = "D" -> "d" [] c = "E" -> "e" [] c = "F" -> "f"
      [] OTHER -> c

\* String.prototype.toLowerCase
toLowerCase(s) == [i \in DOMAIN s |-> LowerChar(s[i])]

Digits == {"0", "1", "2", "3", "4", "5", "6", "7", "8", "9"}

DigitVal(c) ==
    CASE c = "0" -> 0 [] c = "1" -> 1 [] c = "2" -> 2 [] c = "3" -> 3
      [] c = "4" -> 4 [] c = "5" -> 5 [] c = "6" -> 6 [] c = "7" -> 7
      [] c = "8" -> 8 [] c = "9" -> 9

\* the length of the longest prefix of s made of digits
RECURSIVE DigitPrefixLen(_)
DigitPrefixLen(s) ==
    IF s = <<>> \/ Head(s) \notin Digits THEN 0 ELSE 1 + DigitPrefixLen(Tail(s))

\* the value of a sequence of digits
RECURSIVE DigitsVal(_)
DigitsVal(s) ==
    IF s = <<>> THEN 0 ELSE 10 * DigitsVal(SubSeq(s, 1, Len(s) - 1)) + DigitVal(s[Len(s)])

NaN == Null

\* parseInt(s): an optional sign, then the longest run of digits; NaN when there
\* is none, and for undefined. The result is Some(n) or NaN.
parseInt(s) ==
    LET neg  == s # <<>> /\ Head(s) = "-"
        body == IF s # <<>> /\ Head(s) \in {"-", "+"} THEN Tail(s) ELSE s
        n    == DigitPrefixLen(body)
        v    == DigitsVal(SubSeq(body, 1, n))
    IN  IF n = 0 THEN NaN ELSE Some(IF neg THEN 0 - v ELSE v)

\* parseFloat(s) in thousandths, for non-negative decimals of up to three
\* fractional digits: digits, then optionally "." and digits. NaN when no digits.
parseFloat(s) ==
    LET n     == DigitPrefixLen(s)
        whole == DigitsVal(SubSeq(s, 1, n))
        rest  == SubSeq(s, n + 1, Len(s))
        frac  == IF rest # <<>> /\ Head(rest) = "." THEN Tail(rest) ELSE <<>>
        m     == Min(DigitPrefixLen(frac), 3)
        scale == CASE m = 0 -> 1000 [] m = 1 -> 100 [] m = 2 -> 10 [] m = 3 -> 1
    IN  IF n = 0 THEN NaN
        ELSE Some(1000 * whole + (IF m = 0 THEN 0 ELSE scale * DigitsVal(SubSeq(frac, 1, m))))

----------------------------------------------------------------------------
(* inMemoryDB *)

addScan_NoEvict(s, data) == Append(s, data)

addScan_EvictNewest(s, data) ==
    IF Len(s) + 1 > Capacity THEN s ELSE Append(s, data)

\* addScan: push, then shift when the length exceeds the capacity
addScan(s, data) ==
    LET pushed == Append(s, data)
    IN  IF Len(pushed) > Capacity THEN Tail(pushed) ELSE pushed

RECURSIVE find(_, _)
\* Array.prototype.find: the first element satisfying the test, or undefined;
\* here the test of getScan, address equality ignoring case
find(s, address) ==
    IF s = <<>> THEN Null
    ELSE IF toLowerCase(Head(s).contract_address) = toLowerCase(address)
         THEN Some(Head(s))
         ELSE find(Tail(s), address)

RECURSIVE findLast(_, _)
findLast(s, address) ==
    IF s = <<>> THEN Null
    ELSE IF toLowerCase(s[Len(s)].contract_address) = toLowerCase(address)
         THEN Some(s[Len(s)])
         ELSE findLast(SubSeq(s, 1, Len(s) - 1), address)

getScan_Last(s, address) == findLast(s, address)

getScan(s, address) == find(s, address)

\* Array.prototype.slice(start): a negative start counts from the end
slice(s, start) ==
    LET k == IF start < 0 THEN Max(Len(s) + start, 0) ELSE Min(start, Len(s))
    IN  SubSeq(s, k + 1, Len(s))

\* Array.prototype.reverse
reverse(s) == [i \in DOMAIN s |-> s[Len(s) + 1 - i]]

getRecent(s, limit) == reverse(slice(s, 0 - limit))

----------------------------------------------------------------------------
(* The risk-analysis report and the scorer, scanWithGoPlus *)

Flag == {"0", "1"}

\* buy_tax / sell_tax as the service sends them: absent, or a decimal fraction
TaxStrings == {<<>>, <<"0">>, <<"0", ".", "1">>, <<"0", ".", "1", "5">>}

AllReports ==
    [is_honeypot : Flag, is_open_source : Flag, is_proxy : Flag, is_mintable : Flag,
     can_take_back_ownership : Flag, buy_tax : TaxStrings, sell_tax : TaxStrings]

CleanReport ==
    [is_honeypot |-> "0", is_open_source |-> "1", is_proxy |-> "0", is_mintable |-> "0",
     can_take_back_ownership |-> "0", buy_tax |-> <<"0">>, sell_tax |-> <<"0">>]

\* the reports the service sends in the specifications that interleave handlers
Reports ==
    { CleanReport,
      [CleanReport EXCEPT !.is_open_source = "0", !.is_mintable = "1",
                          !.buy_tax = <<"0", ".", "1", "5">>],
      [CleanReport EXCEPT !.is_honeypot = "1", !.can_take_back_ownership = "1"] }

\* parseFloat(tax || 0) > 0.1, in thousandths
TaxOver(tax) ==
    LET v == IF tax = <<>> THEN Some(0) ELSE parseFloat(tax)
    IN  v # NaN /\ v[1] > 100

computeScore_NoClamp(result) ==
    100 - (IF result.is_honeypot = "1" THEN 100 ELSE 0)
        - (IF result.is_open_source = "0" THEN 20 ELSE 0)
        - (IF result.is_proxy = "1" THEN 10 ELSE 0)
        - (IF result.is_mintable = "1" THEN 15 ELSE 0)
        - (IF result.can_take_back_ownership = "1" THEN 20 ELSE 0)
        - (IF TaxOver(result.buy_tax) THEN 15 ELSE 0)
        - (IF TaxOver(result.sell_tax) THEN 15 ELSE 0)

computeScore_HoneypotHalf(result) ==
    LET s1 == IF result.is_honeypot = "1" THEN 50 ELSE 100
        s2 == IF result.is_open_source = "0" THEN s1 - 20 ELSE s1
        s3 == IF result.is_proxy = "1" THEN s2 - 10 ELSE s2
        s4 == IF result.is_mintable = "1" THEN s3 - 15 ELSE s3
        s5 == IF result.can_take_back_ownership = "1" THEN s4 - 20 ELSE s4
        s6 == IF TaxOver(result.buy_tax) THEN s5 - 15 ELSE s5
        s7 == IF TaxOver(result.sell_tax) THEN s6 - 15 ELSE s6
    IN  Max(0, Min(100, s7))

\* lines 69-79: start at 100, subtract each penalty in turn, clamp
computeScore(result) ==
    LET s0 == 100
        s1 == IF result.is_honeypot = "1" THEN s0 - 100 ELSE s0
        s2 == IF result.is_open_source = "0" THEN s1 - 20 ELSE s1
        s3 == IF result.is_proxy = "1" THEN s2 - 10 ELSE s2
        s4 == IF result.is_mintable = "1" THEN s3 - 15 ELSE s3
        s5 == IF result.can_take_back_ownership = "1" THEN s4 - 20 ELSE s4
        s6 == IF TaxOver(result.buy_tax) THEN s5 - 15 ELSE s5
        s7 == IF TaxOver(result.sell_tax) THEN s6 - 15 ELSE s6
    IN  Max(0, Min(100, s7))

\* What axios.get gives: an error (transport failure, timeout, non-2xx), a body
\* without a result, or a body whose result is keyed by the lowercased address.
ErrorResponse == [kind |-> "error"]
EmptyResponse == [kind |-> "empty"]
DataResponse(address, report) ==
    [kind |-> "data", result |-> [k \in {toLowerCase(address)} |-> report]]

Responses(address, reports) ==
    {ErrorResponse, EmptyResponse} \cup {DataResponse(address, rp) : rp \in reports}

\* scanWithGoPlus, from the return of axios.get on: null, or the scan result
scanWithGoPlus(address, response) ==
    IF response.kind = "error" THEN Null
    ELSE IF response.kind = "empty" \/ toLowerCase(address) \notin DOMAIN response.result
    THEN Null
    ELSE LET result == response.result[toLowerCase(address)]
         IN  Some([score            |-> computeScore(result),
                   isHoneypot       |-> result.is_honeypot = "1",
                   isMintable       |-> result.is_mintable = "1",
                   ownerCanWithdraw |-> result.can_take_back_ownership = "1",
                   rawData          |-> result])

----------------------------------------------------------------------------
(* FLOW A: the AuditRequested handler *)

\* contract addresses as the chain client gives them (checksummed, so mixed case)
Addrs == {<<"a", "B">>, <<"A", "b">>, <<"c", "d">>}

\* the time of new Date(): the number of records appended so far
Now == Len(appended)

IdleRequest == [pc |-> "undelivered", target |-> Null, scanResult |-> Null, outcome |-> "none"]

\* the request scored last
LastScored ==
    CHOOSE q \in DOMAIN req :
        /\ req[q].scanResult # Null
        /\ \A p \in DOMAIN req : req[p].scanResult # Null => p <= q

\* a record built from a scan result the handlers share: the one scored last
CertifiedRecord_Shared(target, scanResult, scannedAt) ==
    [contract_address   |-> target,
     score              |-> req[LastScored].scanResult[1].score,
     is_honeypot        |-> req[LastScored].scanResult[1].isHoneypot,
     is_mintable        |-> req[LastScored].scanResult[1].isMintable,
     owner_can_withdraw |-> req[LastScored].scanResult[1].ownerCanWithdraw,
     has_sbt            |-> TRUE,
     scanned_at         |-> scannedAt]

\* the record of lines 132-140
CertifiedRecord(target, scanResult, scannedAt) ==
    [contract_address   |-> target,
     score              |-> scanResult.score,
     is_honeypot        |-> scanResult.isHoneypot,
     is_mintable        |-> scanResult.isMintable,
     owner_can_withdraw |-> scanResult.ownerCanWithdraw,
     has_sbt            |-> TRUE,
     scanned_at         |-> scannedAt]

\* the two last flags in each other's place
FulfillArgs_Swapped(requestId, scanResult) ==
    [requestId        |-> requestId,
     score            |-> scanResult.score,
     isHoneypot       |-> scanResult.isHoneypot,
     isMintable       |-> scanResult.ownerCanWithdraw,
     ownerCanWithdraw |-> scanResult.isMintable]

\* the arguments of contract.fulfillAudit, lines 116-123
FulfillArgs(requestId, scanResult) ==
    [requestId        |-> requestId,
     score            |-> scanResult.score,
     isHoneypot       |-> scanResult.isHoneypot,
     isMintable       |-> scanResult.isMintable,
     ownerCanWithdraw |-> scanResult.ownerCanWithdraw]

\* an exception that ends every handler in progress, as a crash would
Caught_Propagates(r) == [q \in DOMAIN req |-> [req[q] EXCEPT !.pc = "done", !.outcome = "error"]]

\* the catch of line 145: the handler ends, nothing else changes
Caught(r) == [req EXCEPT ![r].pc = "done", ![r].outcome = "error"]

\* The notification is delivered: the handler logs and calls scanWithGoPlus,
\* which awaits axios.get (lines 96-103, 56-61).
AuditRequested(r, target) ==
    /\ req[r].pc = "undelivered"
    /\ \A q \in DOMAIN req : q < r => req[q].pc # "undelivered"
    /\ req' = [req EXCEPT ![r].pc = "scanWithGoPlus", ![r].target = Some(target)]
    /\ UNCHANGED <<scans, appended, fulfillCalls, lastProcessedBlock, isScanning,
                   tick, scanLog, resp>>

\* Lines 105-108. scanResult is declared const (line 103), so the assignment of
\* the default values (line 107) throws a TypeError, which line 145 catches.
Fallback(r) ==
    /\ req' = Caught(r)
    /\ UNCHANGED fulfillCalls

\* axios.get returns: scanWithGoPlus computes its result, and the handler goes on
\* to call contract.fulfillAudit, which it awaits (lines 63-91, 103-123).
ScoreReturn(r, response) ==
    /\ req[r].pc = "scanWithGoPlus"
    /\ LET scanResult == scanWithGoPlus(req[r].target[1], response)
       IN  IF scanResult = Null
           THEN Fallback(r)
           ELSE /\ req' = [req EXCEPT ![r].pc = "fulfillAudit", ![r].scanResult = scanResult]
                /\ fulfillCalls' = [fulfillCalls EXCEPT ![r] = Append(@, FulfillArgs(r, scanResult[1]))]
    /\ UNCHANGED <<scans, appended, lastProcessedBlock, isScanning, tick, scanLog, resp>>

\* contract.fulfillAudit returns the sent transaction, and the handler awaits
\* tx.wait() (lines 125-126); or it throws (line 145).
FulfillReturn(r, sent) ==
    /\ req[r].pc = "fulfillAudit"
    /\ req' = IF sent THEN [req EXCEPT ![r].pc = "wait"] ELSE Caught(r)
    /\ UNCHANGED <<scans, appended, fulfillCalls, lastProcessedBlock, isScanning,
                   tick, scanLog, resp>>

ReceiptOutcomes == {"status1", "status0", "throw"}

WaitReturn_AppendOnRevert(r, receipt) ==
    /\ req[r].pc = "wait"
    /\ IF receipt \in {"status1", "status0"}
       THEN LET data == [contract_address   |-> req[r].target[1],
                         score              |-> req[r].scanResult[1].score,
                         is_honeypot        |-> req[r].scanResult[1].isHoneypot,
                         is_mintable        |-> req[r].scanResult[1].isMintable,
                         owner_can_withdraw |-> req[r].scanResult[1].ownerCanWithdraw,
                         has_sbt            |-> TRUE,
                         scanned_at         |-> Len(appended)]
            IN  /\ scans' = addScan(scans, data)
                /\ appended' = Append(appended, data)
                /\ req' = [req EXCEPT ![r].pc = "done",
                                      ![r].outcome = IF receipt = "status1" THEN "minted"
                                                     ELSE "reverted"]
       ELSE /\ req' = [req EXCEPT ![r].pc = "done", ![r].outcome = "error"]
            /\ UNCHANGED <<scans, appended>>
    /\ UNCHANGED <<fulfillCalls, lastProcessedBlock, isScanning, tick, scanLog, resp>>

\* tx.wait() returns the receipt, or throws (lines 128-147).
WaitReturn(r, receipt) ==
    /\ req[r].pc = "wait"
    /\ IF receipt = "status1"
       THEN LET data == CertifiedRecord(req[r].target[1], req[r].scanResult[1], Now)
            IN  /\ scans' = addScan(scans, data)
                /\ appended' = Append(appended, data)
                /\ req' = [req EXCEPT ![r].pc = "done", ![r].outcome = "minted"]
       ELSE /\ req' = IF receipt = "status0"
                      THEN [req EXCEPT ![r].pc = "done", ![r].outcome = "reverted"]
                      ELSE Caught(r)
            /\ UNCHANGED <<scans, appended>>
    /\ UNCHANGED <<fulfillCalls, lastProcessedBlock, isScanning, tick, scanLog, resp>>

----------------------------------------------------------------------------
(* FLOW B: scanNewBlocks and scanBlock *)

\* the deployer, tx.from
Deployers == {<<"d", "E">>}

IdleTick ==
    [pc |-> "idle", currentBlock |-> Null, blockNum |-> Null, txLeft |-> 0, tx |-> Null,
     contractAddress |-> Null,
     startWatermark |-> Null,   \* history: the watermark the tick found (line 162)
     swallowed |-> {},          \* history: the blocks whose scan ended in the catch of line 216
     scanResult |-> Null]       \* history: what scanWithGoPlus last returned (line 197)

\* the state the sweep's code reads and writes, as one value
Sweep == [tick |-> tick, lpb |-> lastProcessedBlock, scanning |-> isScanning, log |-> scanLog]

SetSweep(S) ==
    /\ tick' = S.tick
    /\ lastProcessedBlock' = S.lpb
    /\ isScanning' = S.scanning
    /\ scanLog' = S.log

\* the record of lines 202-212
DiscoveredRecord(contractAddress, scanResult, blockNumber, from, scannedAt) ==
    [contract_address   |-> contractAddress,
     score              |-> scanResult.score,
     is_honeypot        |-> scanResult.isHoneypot,
     is_mintable        |-> scanResult.isMintable,
     owner_can_withdraw |-> scanResult.ownerCanWithdraw,
     block_number       |-> blockNumber,
     deployer           |-> from,
     has_sbt            |-> FALSE,
     scanned_at         |-> scannedAt]

SingleFlight_Off == FALSE

\* line 156: the tick returns at once when another is in progress
SingleFlight == isScanning

InitWatermark_Keep(lpb, currentBlock) == lpb

\* lines 162-164: the watermark 0 means "not initialised"
InitWatermark(lpb, currentBlock) == IF lpb = 0 THEN currentBlock - 1 ELSE lpb

Finally_KeepsFlag(S, t) ==
    [S EXCEPT !.tick[t] = [@ EXCEPT !.pc = "done", !.blockNum = Null, !.txLeft = 0,
                                    !.tx = Null, !.contractAddress = Null]]

\* lines 177-179: the finally of scanNewBlocks; the invocation ends
Finally(S, t) ==
    [S EXCEPT !.scanning = FALSE,
              !.tick[t] = [@ EXCEPT !.pc = "done", !.blockNum = Null, !.txLeft = 0,
                                    !.tx = Null, !.contractAddress = Null]]

\* line 170 and 183-184: scanBlock(b) is called and awaits provider.getBlock
CallScanBlock(S, t, b) ==
    [S EXCEPT !.log = Append(@, b),
              !.tick[t] = [@ EXCEPT !.pc = "getBlock", !.blockNum = Some(b), !.txLeft = 0,
                                    !.tx = Null, !.contractAddress = Null]]

AdvanceWatermark_Short(S, t) == [S EXCEPT !.lpb = S.tick[t].currentBlock[1] - 1]

\* line 173
AdvanceWatermark(S, t) == [S EXCEPT !.lpb = S.tick[t].currentBlock[1]]

\* lines 169-174: the loop test with blockNum = b, and what follows the loop
LoopFrom(S, t, b) ==
    IF b <= S.tick[t].currentBlock[1]
    THEN CallScanBlock(S, t, b)
    ELSE Finally(AdvanceWatermark(S, t), t)

\* scanBlock returned (normally, or through its catch of line 216): blockNum++
EndBlock(S, t) == LoopFrom(S, t, S.tick[t].blockNum[1] + 1)

\* lines 216-218: the catch of scanBlock swallows the error, and scanBlock returns
Swallow(S, t) ==
    EndBlock([S EXCEPT !.tick[t].swallowed = @ \cup {S.tick[t].blockNum[1]}], t)

\* line 187: the next transaction of the block, if any; it awaits getTransaction
NextTx(S, t) ==
    IF S.tick[t].txLeft > 1
    THEN [S EXCEPT !.tick[t] = [@ EXCEPT !.pc = "getTransaction", !.txLeft = @ - 1,
                                         !.tx = Null, !.contractAddress = Null]]
    ELSE EndBlock(S, t)

\* The timer fires scanNewBlocks (lines 155-160, 221): it returns at once when a
\* tick is in progress, and otherwise takes the flag and awaits getBlockNumber.
TimerFires(t) ==
    /\ tick[t].pc = "idle"
    /\ \A u \in DOMAIN tick : u < t => tick[u].pc # "idle"
    /\ IF SingleFlight
       THEN /\ tick' = [tick EXCEPT ![t].pc = "skipped"]
            /\ UNCHANGED isScanning
       ELSE /\ tick' = [tick EXCEPT ![t].pc = "getBlockNumber"]
            /\ isScanning' = TRUE
    /\ UNCHANGED <<scans, appended, req, fulfillCalls, lastProcessedBlock, scanLog,
                   resp>>

\* provider.getBlockNumber returns the head (lines 160-174, 177-179)
GetBlockNumberReturn(t, currentBlock) ==
    /\ tick[t].pc = "getBlockNumber"
    /\ LET w == InitWatermark(lastProcessedBlock, currentBlock)
           S == [Sweep EXCEPT !.lpb = w,
                              !.tick[t] = [@ EXCEPT !.currentBlock = Some(currentBlock),
                                                    !.startWatermark = Some(lastProcessedBlock)]]
       IN  SetSweep(IF currentBlock > w THEN LoopFrom(S, t, w + 1) ELSE Finally(S, t))
    /\ UNCHANGED <<scans, appended, req, fulfillCalls, resp>>

GetBlockNumberThrows_Advances(t) ==
    /\ tick[t].pc = "getBlockNumber"
    /\ SetSweep([Sweep EXCEPT !.lpb = @ + 1, !.scanning = FALSE, !.tick[t].pc = "done"])
    /\ UNCHANGED <<scans, appended, req, fulfillCalls, resp>>

\* provider.getBlockNumber throws (lines 175-179)
GetBlockNumberThrows(t) ==
    /\ tick[t].pc = "getBlockNumber"
    /\ SetSweep(Finally(Sweep, t))
    /\ UNCHANGED <<scans, appended, req, fulfillCalls, resp>>

\* what provider.getBlock gives: it throws, or returns null, or a block of n
\* transaction hashes
Throws == [kind |-> "throw"]
ReturnsNull == [kind |-> "null"]
BlockOutcomes(maxTxs) ==
    {Throws, ReturnsNull} \cup {[kind |-> "block", transactions |-> n] : n \in 0..maxTxs}

\* provider.getBlock returns (lines 184-188, 216-218)
GetBlockReturn(t, block) ==
    /\ tick[t].pc = "getBlock"
    /\ SetSweep(IF block.kind = "throw"
                THEN Swallow(Sweep, t)
                ELSE IF block.kind = "null" \/ block.transactions = 0
                THEN EndBlock(Sweep, t)
                ELSE [Sweep EXCEPT !.tick[t] = [@ EXCEPT !.pc = "getTransaction",
                                                         !.txLeft = block.transactions]])
    /\ UNCHANGED <<scans, appended, req, fulfillCalls, resp>>

\* what provider.getTransaction gives: it throws, or returns null, or the
\* transaction (its sender)
TxOutcomes == {Throws, ReturnsNull} \cup {[kind |-> "tx", from |-> d] : d \in Deployers}

\* provider.getTransaction returns, and getTransactionReceipt is awaited
\* (lines 188-189, 216-218)
GetTransactionReturn(t, tx) ==
    /\ tick[t].pc = "getTransaction"
    /\ SetSweep(IF tx.kind = "throw"
                THEN Swallow(Sweep, t)
                ELSE [Sweep EXCEPT !.tick[t] = [@ EXCEPT !.pc = "getTransactionReceipt",
                                                         !.tx = IF tx.kind = "null" THEN Null
                                                                ELSE Some(tx)]])
    /\ UNCHANGED <<scans, appended, req, fulfillCalls, resp>>

\* what provider.getTransactionReceipt gives: it throws, or returns null, or a
\* receipt without a contract address, or one that names a created contract
ReceiptResults(created) ==
    {Throws, ReturnsNull} \cup
    {[kind |-> "receipt", contractAddress |-> c] : c \in {Null} \cup {Some(a) : a \in created}}

\* provider.getTransactionReceipt returns (lines 189-197, 216-218). Reading
\* tx.from of a null transaction (line 195) throws into the catch of line 216.
GetTransactionReceiptReturn(t, receipt) ==
    /\ tick[t].pc = "getTransactionReceipt"
    /\ SetSweep(CASE receipt.kind = "throw" -> Swallow(Sweep, t)
                  [] receipt.kind = "null" -> NextTx(Sweep, t)
                  [] OTHER ->
                       IF receipt.contractAddress = Null
                       THEN NextTx(Sweep, t)
                       ELSE IF tick[t].tx = Null
                       THEN Swallow(Sweep, t)
                       ELSE [Sweep EXCEPT !.tick[t] =
                                [@ EXCEPT !.pc = "scanWithGoPlus",
                                          !.contractAddress = receipt.contractAddress]])
    /\ UNCHANGED <<scans, appended, req, fulfillCalls, resp>>

\* a sweep that stores a neutral record when the scorer returns nothing
SweepScoreReturn_Fallback(t, response) ==
    /\ tick[t].pc = "scanWithGoPlus"
    /\ LET scanResult == scanWithGoPlus(tick[t].contractAddress[1], response)
           used == IF scanResult = Null
                   THEN [score |-> 50, isHoneypot |-> FALSE, isMintable |-> FALSE,
                         ownerCanWithdraw |-> FALSE]
                   ELSE scanResult[1]
           data == [contract_address   |-> tick[t].contractAddress[1],
                    score              |-> used.score,
                    is_honeypot        |-> used.isHoneypot,
                    is_mintable        |-> used.isMintable,
                    owner_can_withdraw |-> used.ownerCanWithdraw,
                    block_number       |-> tick[t].blockNum[1],
                    deployer           |-> tick[t].tx[1].from,
                    has_sbt            |-> FALSE,
                    scanned_at         |-> Len(appended)]
       IN  /\ scans' = addScan(scans, data)
           /\ appended' = Append(appended, data)
           /\ SetSweep(NextTx([Sweep EXCEPT !.tick[t].scanResult = scanResult], t))
    /\ UNCHANGED <<req, fulfillCalls, resp>>

\* axios.get returns to the scanWithGoPlus called by scanBlock (lines 197-214)
SweepScoreReturn(t, response) ==
    /\ tick[t].pc = "scanWithGoPlus"
    /\ LET scanResult == scanWithGoPlus(tick[t].contractAddress[1], response)
           data == DiscoveredRecord(tick[t].contractAddress[1], scanResult[1],
                                    tick[t].blockNum[1], tick[t].tx[1].from, Now)
       IN  /\ IF scanResult # Null
              THEN /\ scans' = addScan(scans, data)
                   /\ appended' = Append(appended, data)
              ELSE UNCHANGED <<scans, appended>>
           /\ SetSweep(NextTx([Sweep EXCEPT !.tick[t].scanResult = scanResult], t))
    /\ UNCHANGED <<req, fulfillCalls, resp>>

----------------------------------------------------------------------------------------------------------------------------------------
(* The read endpoints *)

\* parseInt(req.query.limit) || 50 (line 227): NaN and 0 are falsy
QueryLimit(limit) ==
    LET n == parseInt(limit)
    IN  IF n = NaN \/ n[1] = 0 THEN DefaultLimit ELSE n[1]

\* GET /api/recent-scans (lines 225-238); limit is the query parameter as text,
\* <<>> when it is absent
RecentScans(limit) ==
    /\ LET contracts == getRecent(scans, QueryLimit(limit))
       IN  resp' = Some([endpoint |-> "recent-scans", success |-> TRUE,
                         count |-> Len(contracts), contracts |-> contracts])
    /\ UNCHANGED <<scans, appended, req, fulfillCalls, lastProcessedBlock, isScanning,
                   tick, scanLog>>

\* what the chain gives: contract.tokenOf throws, or returns the token id (0:
\* none); with a token, contract.getAuditData throws or returns its data
TokenOfOutcomes ==
    {Throws, [kind |-> "tokenId", tokenId |-> 0]} \cup
    {[kind |-> "tokenId", tokenId |-> 7, onChainData |-> d] : d \in {Null, Some([score |-> 100])}}

\* GET /api/contract-status/:address (lines 240-277), from the return of
\* contract.tokenOf on; with a certificate the data comes from the chain
ContractStatus(address, tokenOf) ==
    /\ resp' =
         IF tokenOf.kind = "throw" \/ (tokenOf.tokenId > 0 /\ tokenOf.onChainData = Null)
         THEN Some([endpoint |-> "contract-status", success |-> FALSE])
         ELSE IF tokenOf.tokenId > 0
         THEN Some([endpoint |-> "contract-status", success |-> TRUE, address |-> address,
                    hasSBT |-> TRUE,
                    auditData |-> Some([score   |-> tokenOf.onChainData[1].score,
                                        tokenId |-> tokenOf.tokenId])])
         ELSE LET dbData == getScan(scans, address)
              IN  Some([endpoint |-> "contract-status", success |-> TRUE, address |-> address,
                        hasSBT |-> FALSE,
                        auditData |-> IF dbData # Null
                                      THEN Some([score            |-> dbData[1].score,
                                                 isHoneypot       |-> dbData[1].is_honeypot,
                                                 isMintable       |-> dbData[1].is_mintable,
                                                 ownerCanWithdraw |-> dbData[1].owner_can_withdraw,
                                                 scannedAt        |-> dbData[1].scanned_at])
                                      ELSE Null])
    /\ UNCHANGED <<scans, appended, req, fulfillCalls, lastProcessedBlock, isScanning,
                   tick, scanLog>>

----------------------------------------------------------------------------
(* The specifications *)

\* the state when the module has loaded: nothing stored, no handler running
InitWith(requestIds, tickIds) ==
    /\ scans = <<>>
    /\ appended = <<>>
    /\ req = [r \in requestIds |-> IdleRequest]
    /\ fulfillCalls = [r \in requestIds |-> <<>>]
    /\ lastProcessedBlock = 0
    /\ isScanning = FALSE
    /\ tick = [t \in tickIds |-> IdleTick]
    /\ scanLog = <<>>
    /\ resp = Null

\* the steps of FLOW A, with the targets and reports the environment draws from
DemandStep(targets, reports) ==
    \/ \E r \in DOMAIN req, a \in targets : AuditRequested(r, a)
    \/ \E r \in DOMAIN req :
          /\ req[r].pc = "scanWithGoPlus"
          /\ \E rs \in Responses(req[r].target[1], reports) : ScoreReturn(r, rs)
    \/ \E r \in DOMAIN req, sent \in BOOLEAN : FulfillReturn(r, sent)
    \/ \E r \in DOMAIN req, rc \in ReceiptOutcomes : WaitReturn(r, rc)

\* the steps of FLOW B, with the head heights, block sizes, created contracts
\* and reports the environment draws from
SweepStep(heads, maxTxs, created, reports) ==
    \/ \E t \in DOMAIN tick : TimerFires(t)
    \/ \E t \in DOMAIN tick, h \in heads : GetBlockNumberReturn(t, h)
    \/ \E t \in DOMAIN tick : GetBlockNumberThrows(t)
    \/ \E t \in DOMAIN tick, b \in BlockOutcomes(maxTxs) : GetBlockReturn(t, b)
    \/ \E t \in DOMAIN tick, tx \in TxOutcomes : GetTransactionReturn(t, tx)
    \/ \E t \in DOMAIN tick, rc \in ReceiptResults(created) : GetTransactionReceiptReturn(t, rc)
    \/ \E t \in DOMAIN tick :
          /\ tick[t].pc = "scanWithGoPlus"
          /\ \E rs \in Responses(tick[t].contractAddress[1], reports) : SweepScoreReturn(t, rs)

\* Both flows over the shared store.
Init == InitWith(1..MaxRequests, 1..MaxTicks)

Next ==
    \/ DemandStep({<<"a", "B">>}, {CleanReport})
    \/ SweepStep(0..MaxHead, MaxTxs, {<<"c", "d">>}, {CleanReport})

Spec == Init /\ [][Next]_vars

\* The sweep alone: no notification is delivered.
InitSweep == InitWith({}, 1..SweepTicks)

NextSweep == SweepStep(0..SweepHead, SweepTxs, {<<"c", "d">>}, {CleanReport})

SpecSweep == InitSweep /\ [][NextSweep]_vars

\* The sweep when no awaited call hangs for ever: axios.get has a timeout of
\* 10 s (line 60), and the chain client's calls are taken to return or fail.
InitSweepFair == InitWith({}, 1..FairTicks)

NextSweepFair == SweepStep(0..FairHead, FairTxs, {<<"c", "d">>}, {CleanReport})

\* the call a tick awaits (the chain client's, or axios.get in scanWithGoPlus)
\* returns or throws
CallReturns ==
    \E t \in DOMAIN tick :
        \/ \E h \in 0..FairHead : GetBlockNumberReturn(t, h)
        \/ GetBlockNumberThrows(t)
        \/ \E b \in BlockOutcomes(FairTxs) : GetBlockReturn(t, b)
        \/ \E tx \in TxOutcomes : GetTransactionReturn(t, tx)
        \/ \E rc \in ReceiptResults({<<"c", "d">>}) : GetTransactionReceiptReturn(t, rc)
        \/ /\ tick[t].pc = "scanWithGoPlus"
           /\ \E rs \in Responses(tick[t].contractAddress[1], {CleanReport}) :
                 SweepScoreReturn(t, rs)

SpecSweepFair == InitSweepFair /\ [][NextSweepFair]_vars /\ WF_vars(CallReturns)

\* The scorer over every report of the service, called by either flow: one
\* notification, or one timer firing.
InitScore == InitWith({1}, {}) \/ InitWith({}, {1})

NextScore ==
    \/ DemandStep({<<"a", "B">>}, AllReports)
    \/ SweepStep({1}, 1, {<<"c", "d">>}, AllReports)

SpecScore == InitScore /\ [][NextScore]_vars

\* Concurrent notifications for different targets with different reports, and
\* one timer firing that finds one block with one transaction.
DemandTargets == {<<"a", "B">>, <<"c", "d">>}

InitDemand == InitWith(1..DemandRequests, {1})

NextDemand ==
    \/ DemandStep(DemandTargets, Reports)
    \/ SweepStep({1}, 1, {<<"c", "d">>}, {CleanReport})

SpecDemand == InitDemand /\ [][NextDemand]_vars

\* The read endpoints over the stores the flows can have built: the records of
\* up to Capacity fulfilled requests, appended at times 0, 1, ...
Report80 == [CleanReport EXCEPT !.is_open_source = "0"]
Report40 == [CleanReport EXCEPT !.is_open_source = "0", !.is_proxy = "1", !.is_mintable = "1",
                                !.buy_tax = <<"0", ".", "1", "5">>]

StoredRecord(address, report, scannedAt) ==
    CertifiedRecord(address, scanWithGoPlus(address, DataResponse(address, report))[1], scannedAt)

Stores ==
    UNION { { [i \in 1..n |-> StoredRecord(f[i][1], f[i][2], i - 1)] :
                f \in [1..n -> Addrs \X {Report80, Report40}] } : n \in 0..Capacity }

InitApi ==
    /\ scans \in Stores
    /\ appended = scans
    /\ req = <<>>
    /\ fulfillCalls = <<>>
    /\ lastProcessedBlock = 0
    /\ isScanning = FALSE
    /\ tick = <<>>
    /\ scanLog = <<>>
    /\ resp = Null

\* the limit parameter of a query: absent, or text
LimitTexts == {<<>>, <<"0">>, <<"1">>, <<"2">>, <<"-", "1">>, <<"-", "2">>, <<"x">>}

\* the address parameter of a query: any case
QueryAddrs == Addrs \cup {<<"a", "b">>, <<"e", "f">>}

NextApi ==
    \/ \E limit \in LimitTexts : RecentScans(limit)
    \/ \E address \in QueryAddrs, tokenOf \in TokenOfOutcomes : ContractStatus(address, tokenOf)

SpecApi == InitApi /\ [][NextApi]_vars

----------------------------------------------------------------------------
(* The claims *)

NeutralFallback ==
    [score |-> 50, isHoneypot |-> FALSE, isMintable |-> FALSE, ownerCanWithdraw |-> FALSE]

\* the scorer returned null to the handler of request r, which has ended
EndedUnavailable(r) == req[r].pc = "done" /\ req[r].scanResult = Null

\* C1: whenever the scorer returns Unavailable for a notification, the handler
\* still makes exactly one fulfillAudit call for that requestId, with score 50
\* and the three flags false.
C1_FallbackLiveness ==
    \A r \in DOMAIN req :
        EndedUnavailable(r) =>
            /\ Len(fulfillCalls[r]) = 1
            /\ fulfillCalls[r][1] = FulfillArgs(r, NeutralFallback)

\* the number of times block b was passed to scanBlock
TimesScanned(b) == Cardinality({i \in DOMAIN scanLog : scanLog[i] = b})

\* the value the watermark was first initialised to: the first block scanned is
\* the one after it (lines 163, 169)
FirstWatermark == Head(scanLog) - 1

\* C2: every block number is passed to the per-block scan at most once, and
\* every block number above the first initialised watermark and up to the
\* current watermark has been passed to it exactly once.
C2_NoSkipNoReprocess ==
    /\ \A i, j \in DOMAIN scanLog : i # j => scanLog[i] # scanLog[j]
    /\ scanLog # <<>> =>
          \A b \in (FirstWatermark + 1)..lastProcessedBlock : TimesScanned(b) = 1

\* C3: the watermark never decreases from one state to the next.
C3_WatermarkMonotonic == [][lastProcessedBlock' >= lastProcessedBlock]_vars

\* tick t read the head and ran to completion, and no later tick has touched
\* the watermark since
LastCompleted(t) ==
    /\ tick[t].pc = "done"
    /\ tick[t].currentBlock # Null
    /\ \A u \in DOMAIN tick :
          u > t => \/ tick[u].pc \in {"idle", "skipped", "getBlockNumber"}
                   \/ tick[u].pc = "done" /\ tick[u].currentBlock = Null

\* C4, as claimed: after every tick that read the head H and ran to completion,
\* the watermark equals H, whether H is above, at or below the watermark.
C4_WatermarkIsHead ==
    \A t \in DOMAIN tick : LastCompleted(t) => lastProcessedBlock = tick[t].currentBlock[1]

\* C4, amended: after every tick that read the head H and ran to completion,
\* the watermark is the larger of H and the watermark the tick found: it equals
\* H when H is not below that watermark, and is unchanged when H is below it.
C4_WatermarkIsMaxOfHead ==
    \A t \in DOMAIN tick :
        LastCompleted(t) =>
            lastProcessedBlock = Max(tick[t].currentBlock[1], tick[t].startWatermark[1])

\* a completed tick whose head was below the watermark, after one that scanned
C4_Witness ==
    \E t, u \in DOMAIN tick :
        /\ t < u
        /\ tick[t].pc = "done" /\ tick[t].currentBlock # Null
        /\ LastCompleted(u)
        /\ tick[u].currentBlock[1] < tick[u].startWatermark[1]
        /\ tick[t].currentBlock[1] > tick[t].startWatermark[1]
        /\ lastProcessedBlock = tick[t].currentBlock[1]

\* the ticks between their first await and their end
ActiveTicks == {t \in DOMAIN tick : tick[t].pc \notin {"idle", "skipped", "done"}}

\* C5: at most one tick executes at a time; a tick that fires while another is
\* in progress reads no head, scans no block, leaves the watermark and the
\* flag as they are, and never runs later (it is skipped, not queued).
C5_SingleFlight ==
    [][ /\ Cardinality(ActiveTicks') <= 1
        /\ \A t \in DOMAIN tick :
              /\ (isScanning /\ tick[t].pc = "idle" /\ tick'[t].pc # "idle") =>
                    /\ tick'[t] = [tick[t] EXCEPT !.pc = "skipped"]
                    /\ UNCHANGED <<lastProcessedBlock, isScanning, scanLog, scans>>
              /\ tick[t].pc = "skipped" => tick'[t] = tick[t] ]_vars

\* a tick was skipped while another was scanning a block, which then went on
C5_Witness ==
    \E t, u \in DOMAIN tick :
        /\ tick[u].pc = "skipped"
        /\ tick[t].pc = "getTransaction"
        /\ isScanning
        /\ Len(scanLog) >= 2

\* C6: the store never holds more than Capacity records, however the appends
\* of the fulfillments and of the sweep interleave.
C6_StoreCapacity == Len(scans) <= Capacity

\* the store is full, records were evicted, and both flows have appended
C6_Witness ==
    /\ Len(scans) = Capacity
    /\ Len(appended) > Capacity
    /\ \E i, j \in DOMAIN appended : appended[i].has_sbt /\ ~appended[j].has_sbt

\* C7: the store holds exactly the last Capacity records appended (all of them
\* while there are no more than Capacity), in the order they were appended.
C7_OldestFirstEviction ==
    scans = SubSeq(appended, Max(1, Len(appended) - Capacity + 1), Len(appended))

\* more records were appended than the store holds
C7_Witness ==
    /\ Len(appended) >= Capacity + 1
    /\ Len(scans) = Capacity
    /\ scans[1] = appended[Len(appended) - Capacity + 1]
    /\ scans[1] # appended[1]

\* the limits getRecent is called with
Limits == (0 - Capacity - 1)..(Capacity + 1)

\* C8: for every integer limit, getRecent(limit) is a run of store records,
\* most recent first, of length at most min(limit, store size) (a bound below
\* zero allows no record).
C8_GetRecentBounded ==
    \A limit \in Limits :
        LET r == getRecent(scans, limit)
        IN  /\ Len(r) <= Max(0, Min(limit, Len(scans)))
            /\ \A i \in DOMAIN r : r[i] = scans[Len(scans) + 1 - i]

\* equality of addresses ignoring the case of the letters
SameAddress(a, b) ==
    /\ Len(a) = Len(b)
    /\ \A i \in DOMAIN a : a[i] = b[i] \/ LowerChar(a[i]) = b[i] \/ a[i] = LowerChar(b[i])

\* the places of the store records for address a
Matches(a) == {i \in DOMAIN scans : SameAddress(scans[i].contract_address, a)}

\* C9: getScan(address) returns the earliest-inserted record still in the store
\* whose address equals the queried one ignoring case, and nothing exactly when
\* no record matches.
C9_GetScanEarliest ==
    \A a \in QueryAddrs :
        IF Matches(a) = {}
        THEN getScan(scans, a) = Null
        ELSE getScan(scans, a) = Some(scans[CHOOSE i \in Matches(a) : \A j \in Matches(a) : i <= j])

\* two records for one address in different cases, scores 80 then 40: a query
\* in a third case was answered with the first
C9_Witness ==
    /\ Len(scans) = 2
    /\ scans[1].score = 80 /\ scans[2].score = 40
    /\ scans[1].contract_address # scans[2].contract_address
    /\ resp # Null
    /\ resp[1].endpoint = "contract-status" /\ resp[1].success
    /\ ~resp[1].hasSBT
    /\ resp[1].address \notin {scans[1].contract_address, scans[2].contract_address}
    /\ resp[1].auditData # Null
    /\ resp[1].auditData[1].score = 80
    /\ resp[1].auditData[1].scannedAt = scans[1].scanned_at

\* the penalties of a report: 100 honeypot, 20 not open source, 10 proxy,
\* 15 mintable, 20 ownership can be taken back, 15 buy tax above 10 %, 15 sell
\* tax above 10 %
TaxAboveTenPercent(tax) == tax = <<"0", ".", "1", "5">>

Penalties(rp) ==
      (IF rp.is_honeypot = "1" THEN 100 ELSE 0)
    + (IF rp.is_open_source = "0" THEN 20 ELSE 0)
    + (IF rp.is_proxy = "1" THEN 10 ELSE 0)
    + (IF rp.is_mintable = "1" THEN 15 ELSE 0)
    + (IF rp.can_take_back_ownership = "1" THEN 20 ELSE 0)
    + (IF TaxAboveTenPercent(rp.buy_tax) THEN 15 ELSE 0)
    + (IF TaxAboveTenPercent(rp.sell_tax) THEN 15 ELSE 0)

\* C10: the score the scorer returns is max(0, 100 - the penalties of the
\* report), so within 0..100, and every record of the store has a score within
\* 0..100.
C10_ScoreFormula ==
    /\ \A r \in DOMAIN req :
          req[r].scanResult # Null =>
              LET sr == req[r].scanResult[1]
              IN  /\ sr.score = Max(0, 100 - Penalties(sr.rawData))
                  /\ sr.score \in 0..100
    /\ \A i \in DOMAIN scans : scans[i].score \in 0..100

\* a honeypot that is also closed-source was scored: the penalties pass 100
C10_Witness ==
    \E r \in DOMAIN req :
        /\ req[r].outcome = "minted"
        /\ req[r].scanResult[1].rawData.is_honeypot = "1"
        /\ req[r].scanResult[1].rawData.is_open_source = "0"
        /\ scans # <<>> /\ scans[1].score = 0

\* C11: if the report flags the address as a honeypot, the score the scorer
\* returns is 0 whatever the other flags are, and isHoneypot is set exactly
\* then; hence every record of the store with is_honeypot true has score 0.
C11_HoneypotDominance ==
    /\ \A r \in DOMAIN req :
          req[r].scanResult # Null =>
              LET sr == req[r].scanResult[1]
              IN  /\ sr.isHoneypot = (sr.rawData.is_honeypot = "1")
                  /\ sr.isHoneypot => sr.score = 0
    /\ \A i \in DOMAIN scans : scans[i].is_honeypot => scans[i].score = 0
    /\ \A i \in DOMAIN appended : appended[i].is_honeypot => appended[i].score = 0

\* the sweep stored a honeypot whose report has no other penalty, so that the
\* honeypot flag alone brought the score to 0
C11_Witness ==
    /\ scans # <<>>
    /\ scans[1].is_honeypot /\ ~scans[1].has_sbt /\ ~scans[1].is_mintable
    /\ ~scans[1].owner_can_withdraw
    /\ scans[1].score = 0
    /\ \E t \in DOMAIN tick : tick[t].pc = "done"

\* the records appended with has_sbt true, by their place in the append history
Certified(h) == {i \in DOMAIN h : h[i].has_sbt}

\* the requests whose transaction was included and reported success
Minted(q) == {r \in DOMAIN q : q[r].outcome = "minted"}

\* C12: a record with has_sbt true is appended only by the step in which the
\* receipt of that request's transaction reports success, one record in that
\* step and so at most one per notification; when the receipt reports a
\* revert nothing is appended, and a request submits at most one transaction:
\* none once it was submitted, whether it reverted or not.
C12_CertifiedOnlyOnSuccess ==
    [][ /\ Certified(appended') # Certified(appended) =>
              /\ Len(appended') = Len(appended) + 1
              /\ \E r \in DOMAIN req :
                    /\ req[r].pc = "wait" /\ req'[r].outcome = "minted"
                    /\ Len(fulfillCalls[r]) = 1
                    /\ Minted(req') = Minted(req) \cup {r}
        /\ Cardinality(Certified(appended')) = Cardinality(Minted(req'))
        /\ \A r \in DOMAIN req :
              /\ (req[r].outcome # "reverted" /\ req'[r].outcome = "reverted") =>
                    /\ req[r].pc = "wait"
                    /\ UNCHANGED <<scans, appended, fulfillCalls>>
              /\ req[r].outcome = "reverted" =>
                    /\ req'[r] = req[r]
                    /\ fulfillCalls'[r] = fulfillCalls[r]
              /\ Len(fulfillCalls'[r]) <= 1 ]_vars

\* one request was fulfilled and stored, the other reverted after it: one
\* certified record, one transaction each
C12_Witness ==
    \E r, q \in DOMAIN req :
        /\ req[r].outcome = "minted" /\ req[q].outcome = "reverted"
        /\ Cardinality(Certified(appended)) = 1
        /\ appended[Len(appended)].has_sbt
        /\ Len(fulfillCalls[q]) = 1 /\ Len(fulfillCalls[r]) = 1

\* the handler of request q, when it has not ended, can take its next step: the
\* notification can be delivered, or the call it awaits can return
CanProceed(q) ==
    CASE req[q].pc = "undelivered" ->
             (\A p \in DOMAIN req : p < q => req[p].pc # "undelivered")
                 => ENABLED (\E a \in Addrs : AuditRequested(q, a))
      [] req[q].pc = "scanWithGoPlus" ->
             ENABLED (\E rs \in Responses(req[q].target[1], {CleanReport}) : ScoreReturn(q, rs))
      [] req[q].pc = "fulfillAudit" -> ENABLED (\E sent \in BOOLEAN : FulfillReturn(q, sent))
      [] req[q].pc = "wait" -> ENABLED (\E rc \in ReceiptOutcomes : WaitReturn(q, rc))
      [] OTHER -> TRUE

\* the step in which the handler of request r catches an exception
Catches(r) == req[r].outcome # "error" /\ req'[r].outcome = "error"

\* C13: the step in which a handler catches an exception (from scoring, from
\* submitting the transaction or from awaiting its receipt) ends that handler
\* alone: the store, the watermark, the single-flight flag, the ticks and every
\* other request are left as they are; and whatever has failed, every handler
\* that has not ended can take its next step.
C13_FailureContainment ==
    /\ [](\A q \in DOMAIN req : CanProceed(q))
    /\ [][ \A r \in DOMAIN req :
              Catches(r) =>
                  /\ req'[r].pc = "done"
                  /\ \A q \in DOMAIN req \ {r} : req'[q] = req[q]
                  /\ UNCHANGED <<scans, appended, lastProcessedBlock, isScanning, tick,
                                 scanLog>> ]_vars

\* the first request failed while the second was suspended on its receipt and
\* a tick was scanning; the second was then fulfilled and stored
C13_Witness ==
    \E r, q \in DOMAIN req :
        /\ r < q
        /\ req[r].outcome = "error"
        /\ req[q].outcome = "minted"
        /\ isScanning
        /\ Len(scans) = 1

\* the step in which the head read of tick t fails
HeadReadFails(t) ==
    tick[t].pc = "getBlockNumber" /\ tick'[t].pc = "done" /\ tick'[t].currentBlock = Null

\* the step in which tick u reads the head
ReadsHead(u) == tick[u].pc = "getBlockNumber" /\ tick'[u].currentBlock # Null

\* the head read of tick t failed, and no later tick has read the head since
AwaitsRetry(t) ==
    /\ tick[t].pc = "done" /\ tick[t].currentBlock = Null
    /\ \A u \in DOMAIN tick : u > t => tick[u].currentBlock = Null

\* C14, as claimed: a failed head read ends the tick with no block scanned and
\* the watermark w unchanged; w then stays until the next tick that reads a
\* head H', which scans the range starting at w + 1 (nothing when H' <= w).
C14_RetrySameRange ==
    [][ \A t \in DOMAIN tick :
          /\ HeadReadFails(t) =>
                UNCHANGED <<lastProcessedBlock, scanLog, scans, appended>> /\ ~isScanning'
          /\ AwaitsRetry(t) =>
                \/ UNCHANGED <<lastProcessedBlock, scanLog>>
                \/ \E u \in DOMAIN tick :
                      /\ u > t /\ ReadsHead(u)
                      /\ tick'[u].currentBlock[1] > lastProcessedBlock
                      /\ scanLog' = Append(scanLog, lastProcessedBlock + 1) ]_vars

\* C14, amended: a failed head read ends the tick with no block scanned, the
\* flag released and the watermark w unchanged (0 when it was not
\* initialised); w then stays until the next tick that reads a head H'. When w
\* is not 0 that tick scans the range starting at w + 1 (nothing when
\* H' <= w); when w is 0 it initialises the watermark to H' - 1 and its range
\* starts at H'.
C14_RetryFromSameWatermark ==
    [][ \A t \in DOMAIN tick :
          /\ HeadReadFails(t) =>
                UNCHANGED <<lastProcessedBlock, scanLog, scans, appended>> /\ ~isScanning'
          /\ AwaitsRetry(t) =>
                \/ UNCHANGED <<lastProcessedBlock, scanLog>>
                \/ \E u \in DOMAIN tick :
                      /\ u > t /\ ReadsHead(u)
                      /\ tick'[u].startWatermark = Some(lastProcessedBlock)
                      /\ IF lastProcessedBlock # 0
                         THEN /\ tick'[u].currentBlock[1] > lastProcessedBlock
                              /\ scanLog' = Append(scanLog, lastProcessedBlock + 1)
                         ELSE /\ lastProcessedBlock' = tick'[u].currentBlock[1] - 1
                              /\ scanLog' = Append(scanLog, tick'[u].currentBlock[1]) ]_vars

\* the first tick scanned block 1, the head read of the second failed, and the
\* third, reading a head of 2 or more, is scanning block 2
C14_Witness ==
    \E t, u \in DOMAIN tick :
        /\ t < u
        /\ tick[t].pc = "done" /\ tick[t].currentBlock = Null
        /\ tick[u].pc = "getBlock" /\ tick[u].blockNum = Some(2)
        /\ tick[u].currentBlock[1] >= 2
        /\ lastProcessedBlock = 1
        /\ scanLog = <<1, 2>>

\* the step in which the scan of a block by tick t ends in the catch
Swallows(t) == tick'[t].swallowed # tick[t].swallowed

\* the blocks whose scan ended in the catch, by any tick
SwallowedBlocks == UNION {tick[t].swallowed : t \in DOMAIN tick}

\* C15: an error while scanning block b of a tick that read head H ends the
\* scan of b alone: nothing more of b is stored, the tick goes on with block
\* b + 1 when b < H, and when b = H it ends with the watermark at H and the
\* flag released; no block whose scan failed is passed to the per-block scan
\* again.
C15_BlockErrorSwallowed ==
    [][ \A t \in DOMAIN tick :
          /\ Swallows(t) =>
                LET b == tick[t].blockNum[1]
                    H == tick[t].currentBlock[1]
                IN  /\ tick'[t].swallowed = tick[t].swallowed \cup {b}
                    /\ UNCHANGED <<scans, appended>>
                    /\ IF b < H
                       THEN /\ tick'[t].pc = "getBlock" /\ tick'[t].blockNum = Some(b + 1)
                            /\ scanLog' = Append(scanLog, b + 1)
                            /\ isScanning'
                       ELSE /\ tick'[t].pc = "done"
                            /\ lastProcessedBlock' = H
                            /\ ~isScanning'
                            /\ scanLog' = scanLog
          /\ \A b \in SwallowedBlocks : scanLog' # Append(scanLog, b) ]_vars

\* the step in which the scorer returns to tick t
ScorerReturnsTo(t) == tick[t].pc = "scanWithGoPlus" /\ tick'[t] # tick[t]

\* the record of the sweep for the contract, block and transaction tick t is
\* at, with the values of scan result sr
SweepRecordOf(t, sr) ==
    [contract_address   |-> tick[t].contractAddress[1],
     score              |-> sr.score,
     is_honeypot        |-> sr.isHoneypot,
     is_mintable        |-> sr.isMintable,
     owner_can_withdraw |-> sr.ownerCanWithdraw,
     block_number       |-> tick[t].blockNum[1],
     deployer           |-> tick[t].tx[1].from,
     has_sbt            |-> FALSE,
     scanned_at         |-> Len(appended)]

\* C16: no step of the sweep submits a transaction or touches a request; the
\* sweep appends only in the step in which the scorer returns for a created
\* contract: one record when it returned a result, with that result's score
\* and flags, has_sbt false, the block number and the deployer, and nothing
\* when it returned none (no fallback score).
C16_SweepRecordOnly ==
    [][ \A t \in DOMAIN tick :
          tick'[t] # tick[t] =>
              /\ UNCHANGED <<fulfillCalls, req>>
              /\ IF ScorerReturnsTo(t)
                 THEN IF tick'[t].scanResult # Null
                      THEN /\ appended' =
                                Append(appended, SweepRecordOf(t, tick'[t].scanResult[1]))
                           /\ Len(scans') > 0
                           /\ scans'[Len(scans')] = appended'[Len(appended')]
                      ELSE UNCHANGED <<scans, appended>>
                 ELSE UNCHANGED <<scans, appended>> ]_vars

\* the sweep stored a created contract while a request was awaiting its
\* receipt: one record, without certificate, and the one transaction is the
\* request's
C16_Witness ==
    /\ \E t \in DOMAIN tick :
          /\ tick[t].scanResult # Null
          /\ tick[t].pc = "done"
    /\ Len(appended) = 1
    /\ ~appended[1].has_sbt
    /\ appended[1].block_number = 1
    /\ appended[1].deployer \in Deployers
    /\ \E r \in DOMAIN req : req[r].pc = "wait" /\ Len(fulfillCalls[r]) = 1
    /\ \A r \in DOMAIN req : req[r].pc # "wait" => fulfillCalls[r] = <<>>

\* a tick inside scanBlock
ScanningPcs == {"getBlock", "getTransaction", "getTransactionReceipt", "scanWithGoPlus"}

\* C17: a tick that finds the watermark 0 and reads head H sets the watermark
\* to H - 1 and calls the per-block scan for block H; while it scans, the
\* watermark is H - 1 and no other block is passed to the per-block scan; when
\* it ends, the watermark becomes H. (With H = 2: watermark 0, 1, 2 and block 2
\* alone is scanned.)
C17_FirstTickInit ==
    [][ \A t \in DOMAIN tick :
          /\ (ReadsHead(t) /\ lastProcessedBlock = 0) =>
                LET H == tick'[t].currentBlock[1]
                IN  /\ lastProcessedBlock' = H - 1
                    /\ scanLog' = Append(scanLog, H)
                    /\ tick'[t].pc = "getBlock" /\ tick'[t].blockNum = Some(H)
          /\ (tick[t].startWatermark = Some(0) /\ tick[t].pc \in ScanningPcs) =>
                LET H == tick[t].currentBlock[1]
                IN  /\ lastProcessedBlock = H - 1
                    /\ tick[t].blockNum = Some(H)
                    /\ scanLog' = scanLog
                    /\ \/ /\ tick'[t].pc \in ScanningPcs
                          /\ tick'[t].blockNum = Some(H)
                          /\ lastProcessedBlock' = lastProcessedBlock
                       \/ /\ tick'[t].pc = "done"
                          /\ lastProcessedBlock' = H ]_vars

\* the first tick read head 2 and has ended: block 2 alone was scanned, and
\* the watermark is 2
C17_Witness ==
    /\ tick[1].pc = "done"
    /\ tick[1].startWatermark = Some(0)
    /\ tick[1].currentBlock = Some(2)
    /\ scanLog = <<2>>
    /\ lastProcessedBlock = 2

\* a tick that has taken the flag and has not ended
HoldsFlag(t) == tick[t].pc \in {"getBlockNumber"} \cup ScanningPcs

\* C18: every tick that set isScanning ends, and the step in which it ends,
\* whether it scanned, found nothing to scan or failed at the head read, clears
\* isScanning; a timer that fires when no tick holds the flag is not skipped.
C18_FlagReleased ==
    /\ \A t \in 1..FairTicks : HoldsFlag(t) ~> (tick[t].pc = "done" /\ ~isScanning)
    /\ [][ \A t \in DOMAIN tick :
              /\ (HoldsFlag(t) /\ ~HoldsFlag(t)') => (tick'[t].pc = "done" /\ ~isScanning')
              /\ HoldsFlag(t) => isScanning
              /\ (tick[t].pc = "idle" /\ tick'[t].pc # "idle"
                     /\ \A u \in DOMAIN tick : ~HoldsFlag(u))
                    => HoldsFlag(t)' ]_vars

\* the head read of the first tick failed; the second took the flag, swallowed
\* a block error, ended and released the flag
C18_Witness ==
    /\ tick[1].pc = "done" /\ tick[1].currentBlock = Null
    /\ tick[2].pc = "done" /\ tick[2].swallowed # {}
    /\ ~isScanning

\* the timer can fire for tick t, or the call tick t awaits can return
TickCanProceed(t) ==
    CASE tick[t].pc = "idle" ->
             (\A u \in DOMAIN tick : u < t => tick[u].pc # "idle") => ENABLED TimerFires(t)
      [] tick[t].pc = "getBlockNumber" -> ENABLED GetBlockNumberThrows(t)
      [] tick[t].pc = "getBlock" -> ENABLED GetBlockReturn(t, ReturnsNull)
      [] tick[t].pc = "getTransaction" -> ENABLED GetTransactionReturn(t, ReturnsNull)
      [] tick[t].pc = "getTransactionReceipt" ->
             ENABLED GetTransactionReceiptReturn(t, ReturnsNull)
      [] tick[t].pc = "scanWithGoPlus" -> ENABLED SweepScoreReturn(t, ErrorResponse)
      [] OTHER -> TRUE

\* what a step of the handler of request r does, as a function of that
\* request's own target, scorer result and call outcomes alone
OwnStep(r) ==
    CASE req[r].pc = "undelivered" ->
             /\ req'[r].target # Null
             /\ req'[r] = [req[r] EXCEPT !.pc = "scanWithGoPlus", !.target = req'[r].target]
             /\ UNCHANGED <<scans, appended, fulfillCalls>>
      [] req[r].pc = "scanWithGoPlus" ->
             \/ /\ req'[r] = [req[r] EXCEPT !.pc = "done", !.outcome = "error"]
                /\ UNCHANGED <<scans, appended, fulfillCalls>>
             \/ /\ req'[r].scanResult # Null
                /\ LET target == req[r].target[1]
                       sr == scanWithGoPlus(target,
                                            DataResponse(target, req'[r].scanResult[1].rawData))
                   IN  /\ req'[r] = [req[r] EXCEPT !.pc = "fulfillAudit", !.scanResult = sr]
                       /\ fulfillCalls'[r] = <<FulfillArgs(r, sr[1])>>
                /\ UNCHANGED <<scans, appended>>
      [] req[r].pc = "fulfillAudit" ->
             /\ \/ req'[r] = [req[r] EXCEPT !.pc = "wait"]
                \/ req'[r] = [req[r] EXCEPT !.pc = "done", !.outcome = "error"]
             /\ UNCHANGED <<scans, appended, fulfillCalls>>
      [] req[r].pc = "wait" ->
             /\ \E o \in {"minted", "reverted", "error"} :
                   req'[r] = [req[r] EXCEPT !.pc = "done", !.outcome = o]
             /\ IF req'[r].outcome = "minted"
                THEN LET data == [contract_address   |-> req[r].target[1],
                                  score              |-> req[r].scanResult[1].score,
                                  is_honeypot        |-> req[r].scanResult[1].isHoneypot,
                                  is_mintable        |-> req[r].scanResult[1].isMintable,
                                  owner_can_withdraw |-> req[r].scanResult[1].ownerCanWithdraw,
                                  has_sbt            |-> TRUE,
                                  scanned_at         |-> Len(appended)]
                     IN  /\ appended' = Append(appended, data)
                         /\ Len(scans') > 0 /\ scans'[Len(scans')] = data
                ELSE UNCHANGED <<scans, appended>>
             /\ UNCHANGED fulfillCalls
      [] OTHER -> FALSE

\* C19: in every state, whatever the other handlers are suspended on, each
\* handler that has not ended can take its next step, and so can the sweep's
\* tick; and a step of the handler of request r leaves every other request,
\* its transaction and the sweep as they are, and its effect (the arguments of
\* the transaction, and whether and which record is appended) is given by that
\* request's own target, scorer result and call outcomes: the other handlers
\* only decide the place of the record in the store.
C19_IndependentFulfillments ==
    /\ [](/\ \A q \in DOMAIN req : CanProceed(q)
          /\ \A t \in DOMAIN tick : TickCanProceed(t))
    /\ [][ \A r \in DOMAIN req :
              req'[r] # req[r] =>
                  /\ \A q \in DOMAIN req \ {r} :
                        req'[q] = req[q] /\ fulfillCalls'[q] = fulfillCalls[q]
                  /\ UNCHANGED <<lastProcessedBlock, isScanning, tick, scanLog>>
                  /\ OwnStep(r) ]_vars

\* two requests for different targets with different scores, the second
\* stored before the first, while the tick was suspended inside a block
C19_Witness ==
    /\ Len(appended) = 2
    /\ req[1].outcome = "minted" /\ req[2].outcome = "minted"
    /\ req[1].target # req[2].target
    /\ req[1].scanResult[1].score # req[2].scanResult[1].score
    /\ appended[1].contract_address = req[2].target[1]
    /\ appended[1].score = req[2].scanResult[1].score
    /\ appended[2].contract_address = req[1].target[1]
    /\ appended[2].score = req[1].scanResult[1].score
    /\ tick[1].pc = "getTransaction"

\* the step in which the receipt of request r's transaction reports success
Mints(r) == req[r].outcome # "minted" /\ req'[r].outcome = "minted"

\* C20: a record with has_sbt true is appended only in the step in which a
\* request's receipt reports success, and that record carries the target of
\* that request's notification and the score and the three flags of the one
\* fulfillAudit call made for that requestId, whatever the other handlers did
\* meanwhile.
C20_StoreChainConsistency ==
    [][ /\ \A r \in DOMAIN req :
              Mints(r) =>
                  /\ Len(fulfillCalls[r]) = 1
                  /\ Len(appended') = Len(appended) + 1
                  /\ LET call == fulfillCalls[r][1]
                         data == appended'[Len(appended')]
                     IN  /\ call.requestId = r
                         /\ data.has_sbt
                         /\ data.contract_address = req[r].target[1]
                         /\ data.score = call.score
                         /\ data.is_honeypot = call.isHoneypot
                         /\ data.is_mintable = call.isMintable
                         /\ data.owner_can_withdraw = call.ownerCanWithdraw
                         /\ Len(scans') > 0 /\ scans'[Len(scans')] = data
        /\ Certified(appended') # Certified(appended) => \E r \in DOMAIN req : Mints(r)
        /\ \A r \in DOMAIN req : fulfillCalls[r] # <<>> => fulfillCalls'[r] = fulfillCalls[r]
      ]_vars

\* a mintable contract scored 50 was certified while another request, for
\* another target and with another score, had its transaction in flight
C20_Witness ==
    \E r, q \in DOMAIN req :
        /\ req[r].outcome = "minted"
        /\ req[q].pc = "wait"
        /\ req[q].target # req[r].target
        /\ fulfillCalls[q][1].score # fulfillCalls[r][1].score
        /\ fulfillCalls[r][1].isMintable /\ ~fulfillCalls[r][1].ownerCanWithdraw
        /\ Len(appended) = 1
        /\ appended[1].is_mintable /\ ~appended[1].owner_can_withdraw
        /\ appended[1].score = 50

====
